---- MODULE Spec2Model ----
(***************************************************************************)
(* Model of src/src/interface/mod.rs: Interface::new and Interface::start. *)
(*                                                                         *)
(* State: the shared routing State (interface_info and the four lookup     *)
(* tables), the heap of Peer objects the tables refer to, the bounded      *)
(* update-event channel, the tasks spawned on the reactor, and the flows   *)
(* joined by core.run.  One action per handler: the command handler of a   *)
(* control-channel connection (Set, Get), the update-event consumer's      *)
(* closure, the spawned handshake-initiation send, and the termination of  *)
(* a joined flow.                                                          *)
(***************************************************************************)
EXTENDS Integers, Sequences, FiniteSets, TLC

\* ------------------------------------------------------------------ bounds

\* Update events that all Set commands together may carry.
MaxEvents == 3
\* The buffer argument of the update-event channel, scaled down from the
\* program's 1024 (line 110) so that a full channel is reached.
ChannelBuffer == 1
\* Update events of a run in which the joined flows may also terminate.
MaxStartEvents == MaxEvents - 1

\* ------------------------------------------------------------- input sets

\* Option<T>: None, or Some(x).
None == << >>
Some(x) == << x >>

\* Private keys are byte strings; one byte stands for the 32.
PrivateKeys == {<<171>>}
ListenPorts == {51820}
PubKeys == {"pkA", "pkB"}

\* Addresses of both families are AddrBits wide here.
AddrBits == 2

EndpointOf(pk) ==
    IF pk = "pkA" THEN "203.0.113.5:51820" ELSE "198.51.100.7:51820"

\* The peer descriptions an UpdatePeer event may carry: two complete ones
\* (their IPv4 entries designate the same network), one without pre-shared
\* key, one without endpoint, and a complete one whose IPv4 entry is a
\* longer prefix inside that network.  allowed_ips entries are (family,
\* address, mask length).
PeerInfos ==
    { [pub_key |-> "pkA", psk |-> Some("psk"), endpoint |-> Some(EndpointOf("pkA")),
       allowed_ips |-> << <<"v4", 2, 1>> >>],
      [pub_key |-> "pkB", psk |-> Some("psk"), endpoint |-> Some(EndpointOf("pkB")),
       allowed_ips |-> << <<"v4", 3, 1>>, <<"v6", 1, 2>> >>] }
    \cup { [pub_key |-> "pkA", psk |-> None, endpoint |-> Some(EndpointOf("pkA")),
            allowed_ips |-> << <<"v4", 2, 1>> >>] }
    \cup { [pub_key |-> "pkB", psk |-> Some("psk"), endpoint |-> None,
            allowed_ips |-> << <<"v4", 2, 1>> >>] }
    \cup { [pub_key |-> "pkB", psk |-> Some("psk"), endpoint |-> Some(EndpointOf("pkB")),
            allowed_ips |-> << <<"v4", 3, 2>> >>] }

\* UpdateEvent: the three kinds the consumer matches, and every other kind.
UpdateEvents ==
    { [kind |-> "PrivateKey", private_key |-> k] : k \in PrivateKeys }
    \cup { [kind |-> "ListenPort", port |-> p] : p \in ListenPorts }
    \cup { [kind |-> "UpdatePeer", info |-> i] : i \in PeerInfos }
    \cup { [kind |-> "Other"] }

RECURSIVE SeqsUpTo(_, _)
SeqsUpTo(S, n) ==
    IF n = 0 THEN { <<>> }
    ELSE LET shorter == SeqsUpTo(S, n - 1)
         IN  shorter \cup { Append(s, x) : s \in { t \in shorter : Len(t) = n - 1 }, x \in S }

\* The joined flows of core.run.
Flows == {"peer_server", "utun_write", "utun_read", "config_fut", "config_server"}

\* Session indices the session negotiator can hand out: as many as peers can
\* be created (every event but the one that sets the private key).
Indices == 1 .. (MaxEvents - 1)

VARIABLES
    interface_info,   \* State.interface_info
    pubkey_map,       \* State.pubkey_map: public key -> peer
    index_map,        \* State.index_map: session index -> peer
    ip4_map,          \* State.ip4_map: <<network, mask>> -> peer
    ip6_map,          \* State.ip6_map: <<network, mask>> -> peer
    peers,            \* the Peer objects created so far (a peer is its position)
    hash_order,       \* iteration order of pubkey_map (its hasher's seed)
    queue,            \* the update-event channel (config_tx -> config_rx)
    draining,         \* the consumer is inside one poll of config_rx.for_each
    sets,             \* history: the Set commands handled
    consumed,         \* history: the events handed to the consumer's closure
    submitted,        \* history: the datagrams handed to handle.spawn(tx.send)
    resolved,         \* how many of the spawned sends have resolved
    wire,             \* the datagrams the spawned sends delivered
    gets,             \* history: the last two Get responses since the last Set
    flows,            \* each joined flow: running, ok or err
    state_borrow,     \* the RefCell around State between steps: none, shared, error
    start             \* Interface::start: running, blocked, panicked or returned

vars == << interface_info, pubkey_map, index_map, ip4_map, ip6_map, peers,
           hash_order, queue, draining, sets, consumed, submitted, resolved,
           wire, gets, flows, state_borrow, start >>

routing == << interface_info, pubkey_map, index_map, ip4_map, ip6_map >>
tables == << pubkey_map, index_map, ip4_map, ip6_map >>

\* ---------------------------------------------------------------- helpers

EmptyMap == << >>

\* HashMap::insert / IpLookupTable::insert: the value under an existing key
\* is replaced.
MapInsert(m, k, v) ==
    [x \in (DOMAIN m) \cup {k} |-> IF x = k THEN v ELSE m[x]]

Min(a, b) == IF a < b THEN a ELSE b
Max(a, b) == IF a > b THEN a ELSE b

RECURSIVE Pow2(_)
Pow2(n) == IF n = 0 THEN 1 ELSE 2 * Pow2(n - 1)

\* The network a (address, mask) pair designates: the bits right of the mask
\* do not take part in the trie's key.
Network(addr, mask) ==
    LET low == Pow2(AddrBits - mask) IN (addr \div low) * low

PrefixKey(ip) == << Network(ip[2], ip[3]), ip[3] >>

HexDigits == << "0", "1", "2", "3", "4", "5", "6", "7",
                "8", "9", "a", "b", "c", "d", "e", "f" >>

\* hex::encode: two lower-case digits per byte.
RECURSIVE HexEncode(_)
HexEncode(bytes) ==
    IF bytes = << >> THEN ""
    ELSE HexDigits[(Head(bytes) \div 16) + 1] \o HexDigits[(Head(bytes) % 16) + 1]
         \o HexEncode(Tail(bytes))

\* ------------------------------------------------- Peer (protocol::Peer)

\* Peer::new(info) followed by set_next_session: the peer holds its
\* description and a pending session that carries the session's index.
NewPeer(info, index) ==
    [info |-> info, our_next_index |-> index, session |-> "handshake-initiated"]

\* Peer::get_handshake_packet: the initiation message of the pending session.
HandshakePacket(peer) ==
    [type |-> "handshake-initiation", sender_index |-> peer.our_next_index,
     responder |-> peer.info.pub_key]

\* The indices the session negotiator may produce for a new session: any
\* index it has not produced before.
FreshIndices == Indices \ { peers[i].our_next_index : i \in DOMAIN peers }

RECURSIVE AllowedIpLines(_)
AllowedIpLines(ips) ==
    IF ips = << >> THEN << >>
    ELSE << <<"allowed_ip", Head(ips)[1] \o ":" \o ToString(Head(ips)[2])
                             \o "/" \o ToString(Head(ips)[3])>> >>
         \o AllowedIpLines(Tail(ips))

\* Peer::to_config_string: the peer's configuration block.
ToConfigString(peer) ==
    << <<"public_key", peer.info.pub_key>> >>
    \o (IF peer.info.endpoint = None THEN << >>
        ELSE << <<"endpoint", peer.info.endpoint[1]>> >>)
    \o AllowedIpLines(peer.info.allowed_ips)

\* ------------------------------------------------------- initial state

\* Interface::new: empty tables, default InterfaceInfo; start has set up the
\* channels and joined the flows.
Init ==
    /\ interface_info = [private_key |-> None, listen_port |-> None]
    /\ pubkey_map = EmptyMap
    /\ index_map = EmptyMap
    /\ ip4_map = EmptyMap
    /\ ip6_map = EmptyMap
    /\ peers = << >>
    /\ hash_order \in { <<"pkA", "pkB">>, <<"pkB", "pkA">> }
    /\ queue = << >>
    /\ draining = FALSE
    /\ sets = << >>
    /\ consumed = << >>
    /\ submitted = << >>
    /\ resolved = 0
    /\ wire = << >>
    /\ gets = << None, None >>
    /\ flows = [f \in Flows |-> "running"]
    /\ state_borrow = "none"
    /\ start = "running"

\* A task other than the one the reactor is inside may be polled.
ReactorIdle == start = "running" /\ ~draining

\* ------------------------------------------- control channel: Set, Get

\* How many of `len` items a fresh clone of config_tx enqueues before it is
\* parked, with n messages already in the channel: a sender that is not
\* parked always enqueues, and is parked once the count exceeds the buffer.
ItemsThatFit(n, len) == Min(len, Max(1, ChannelBuffer + 1 - n))

\* Mutant: the items go in ahead of the event that was enqueued last.
Enqueue_BeforeLast(q, items, k) ==
    IF q = << >> THEN SubSeq(items, 1, k)
    ELSE SubSeq(q, 1, Len(q) - 1) \o SubSeq(items, 1, k) \o << q[Len(q)] >>

\* send_all(stream::iter_ok(items)): the items in order, at the tail.
Enqueue(q, items, k) == q \o SubSeq(items, 1, k)

SetReply == << <<"errno", "0">>, <<"errno", "0">> >>

\* Mutant: a handler whose sender is parked yields to the reactor.
WaitOutcome_Yields(done) == "running"

\* send_all(..).wait(): returns when every item is enqueued, and otherwise
\* blocks the reactor's thread.
WaitOutcome(done) == IF done THEN "running" ELSE "blocked"

\* The handler's state.borrow() lives to the end of the closure: it is
\* released when the handler returns and outstanding while it waits.
HandlerBorrow(b, done) == IF done THEN b ELSE "shared"

\* Command::Set: send_all(items).wait() on the reactor's own thread, then the
\* success reply.  When the sender is parked before the last item, wait()
\* blocks the thread that would have to drain the channel.  A Set without
\* items enqueues nothing and is left out of the inputs; `limit` bounds the
\* events all Set commands together carry.
HandleSet(limit) ==
    /\ ReactorIdle
    /\ \E items \in SeqsUpTo(UpdateEvents, limit - Len(consumed) - Len(queue)) :
        /\ items # << >>
        /\ LET k == ItemsThatFit(Len(queue), Len(items))
               done == k = Len(items)
           IN  /\ queue' = Enqueue(queue, items, k)
               /\ sets' = Append(sets, [items |-> items, pushed |-> k,
                                        reply |-> IF done THEN SetReply ELSE None])
               /\ start' = WaitOutcome(done)
               /\ state_borrow' = HandlerBorrow(state_borrow, done)
    /\ gets' = << None, None >>
    /\ UNCHANGED << routing, peers, hash_order, draining, consumed, submitted,
                    resolved, wire, flows >>

\* peers.iter(): the entries of pubkey_map in the map's iteration order.
RECURSIVE PeerBlocks(_)
PeerBlocks(keys) ==
    IF keys = << >> THEN << >>
    ELSE (IF Head(keys) \in DOMAIN pubkey_map
          THEN ToConfigString(peers[pubkey_map[Head(keys)]])
          ELSE << >>)
         \o PeerBlocks(Tail(keys))

\* Command::Get: the private key if set, every peer's block, the trailer.
GetResponse ==
    (IF interface_info.private_key # None
     THEN << <<"private_key", HexEncode(interface_info.private_key[1])>> >>
     ELSE << >>)
    \o PeerBlocks(hash_order)
    \o << <<"errno", "0">> >>

\* Mutant: the Get handler takes the private key out of the state it reads.
HandleGet_TakesKey ==
    /\ ReactorIdle
    /\ gets' = << gets[2], GetResponse >>
    /\ interface_info' = [interface_info EXCEPT !.private_key = None]
    /\ UNCHANGED << tables, peers, hash_order, queue, draining, sets, consumed,
                    submitted, resolved, wire, flows, state_borrow, start >>

\* Command::Get reads the state through state.borrow() and builds the reply.
HandleGet ==
    /\ ReactorIdle
    /\ gets' = << gets[2], GetResponse >>
    /\ UNCHANGED << routing, peers, hash_order, queue, draining, sets, consumed,
                    submitted, resolved, wire, flows, state_borrow, start >>

\* --------------------------------------- update-event consumer (config_fut)

\* Mutant: the consumer is handed the newest event instead of the oldest.
NextEvent_Newest(q) == q[Len(q)]

\* config_rx.for_each hands the closure the event at the head of the channel.
NextEvent(q) == Head(q)
Dequeue(q) == Tail(q)

\* The closure has returned future::ok(()): for_each polls the channel again
\* in the same poll, so the consumer keeps the reactor while events remain.
ConsumerReturns ==
    /\ draining' = (queue' # << >>)
    /\ start' = "running"

\* Mutant: the failing expression is skipped and the closure returns.
ConsumerPanics_Continues ==
    /\ draining' = (queue' # << >>)
    /\ start' = "running"

\* expect / unwrap / unimplemented! inside the closure: the panic unwinds
\* through core.run and out of start.
ConsumerPanics ==
    /\ draining' = FALSE
    /\ start' = "panicked"

TakeEvent(kind) ==
    /\ start = "running"
    /\ flows["config_fut"] = "running"
    /\ queue # << >>
    /\ NextEvent(queue).kind = kind
    /\ consumed' = Append(consumed, NextEvent(queue))
    /\ queue' = Dequeue(queue)

\* state.borrow_mut() while a handler's borrow is outstanding.
BorrowMutFails == state_borrow = "shared"

\* "already borrowed": the closure panics before it touches the state.
AlreadyBorrowed ==
    /\ ConsumerPanics
    /\ state_borrow' = "error"
    /\ UNCHANGED << routing, peers, submitted >>

StorePrivateKey(info, key) == [info EXCEPT !.private_key = Some(key)]
StoreListenPort(info, port) == [info EXCEPT !.listen_port = Some(port)]

\* UpdateEvent::PrivateKey
OnPrivateKey ==
    /\ TakeEvent("PrivateKey")
    /\ IF BorrowMutFails THEN AlreadyBorrowed
       ELSE /\ interface_info' = StorePrivateKey(interface_info,
                                                 NextEvent(queue).private_key)
            /\ ConsumerReturns
            /\ UNCHANGED << tables, peers, submitted, state_borrow >>
    /\ UNCHANGED << hash_order, sets, resolved, wire, gets, flows >>

\* UpdateEvent::ListenPort
OnListenPort ==
    /\ TakeEvent("ListenPort")
    /\ IF BorrowMutFails THEN AlreadyBorrowed
       ELSE /\ interface_info' = StoreListenPort(interface_info, NextEvent(queue).port)
            /\ ConsumerReturns
            /\ UNCHANGED << tables, peers, submitted, state_borrow >>
    /\ UNCHANGED << hash_order, sets, resolved, wire, gets, flows >>

\* Mutant: every entry is inserted, whatever its address family.
RECURSIVE InsertAllowedIps_AnyFamily(_, _, _, _)
InsertAllowedIps_AnyFamily(map, family, ips, peer) ==
    IF ips = << >> THEN map
    ELSE InsertAllowedIps_AnyFamily(MapInsert(map, PrefixKey(Head(ips)), peer),
                                    family, Tail(ips), peer)

\* The loop over info.allowed_ips, for the table of one address family.
RECURSIVE InsertAllowedIps(_, _, _, _)
InsertAllowedIps(map, family, ips, peer) ==
    IF ips = << >> THEN map
    ELSE InsertAllowedIps(
            IF Head(ips)[1] = family
            THEN MapInsert(map, PrefixKey(Head(ips)), peer)
            ELSE map,
            family, Tail(ips), peer)

\* Mutant: the insertion into index_map is left out.
IndexMapInsert_Skipped(map, our_index, peer) == map

\* state.index_map.insert(our_index, peer.clone())
IndexMapInsert(map, our_index, peer) == MapInsert(map, our_index, peer)

\* Mutant: a public key that is already registered keeps its peer.
PubkeyMapInsert_KeepFirst(map, pub_key, peer) ==
    IF pub_key \in DOMAIN map THEN map ELSE MapInsert(map, pub_key, peer)

\* state.pubkey_map.insert(info.pub_key, peer)
PubkeyMapInsert(map, pub_key, peer) == MapInsert(map, pub_key, peer)

\* Mutant: the send is spawned twice.
SpawnSend_Twice(tasks, info, init_packet) ==
    tasks \o << [endpoint |-> info.endpoint[1], payload |-> init_packet],
                [endpoint |-> info.endpoint[1], payload |-> init_packet] >>

\* handle.spawn(tx.clone().send((info.endpoint.unwrap(), init_packet)))
SpawnSend(tasks, info, init_packet) ==
    Append(tasks, [endpoint |-> info.endpoint[1], payload |-> init_packet])

\* Mutant: the initiator is built without looking at the private key.
InitiatorPanics_PskOnly(private_key, psk) == psk = None

\* local_private_key(..expect("no private key!")) / psk(2, ..expect("no psk!"))
InitiatorPanics(private_key, psk) == private_key = None \/ psk = None

\* UpdateEvent::UpdatePeer, with the session negotiator handing out one of
\* `candidates` as the new session's index.
ProcessUpdatePeer(candidates) ==
    /\ TakeEvent("UpdatePeer")
    /\ LET info == NextEvent(queue).info IN
       IF BorrowMutFails THEN AlreadyBorrowed
       ELSE IF InitiatorPanics(interface_info.private_key, info.psk)
       THEN \* expect("no private key!") / expect("no psk!")
            /\ ConsumerPanics
            /\ UNCHANGED << interface_info, tables, peers, submitted, state_borrow >>
       ELSE \E our_index \in candidates :
            LET peer == Len(peers) + 1 IN
            /\ UNCHANGED << interface_info, state_borrow >>
            /\ peers' = Append(peers, NewPeer(info, our_index))
            /\ ip4_map' = InsertAllowedIps(ip4_map, "v4", info.allowed_ips, peer)
            /\ ip6_map' = InsertAllowedIps(ip6_map, "v6", info.allowed_ips, peer)
            /\ index_map' = IndexMapInsert(index_map, our_index, peer)
            /\ pubkey_map' = PubkeyMapInsert(pubkey_map, info.pub_key, peer)
            /\ IF info.endpoint = None
               THEN \* info.endpoint.unwrap()
                    /\ ConsumerPanics
                    /\ UNCHANGED submitted
               ELSE /\ submitted' = SpawnSend(submitted, info,
                                              HandshakePacket(NewPeer(info, our_index)))
                    /\ ConsumerReturns
    /\ UNCHANGED << hash_order, sets, resolved, wire, gets, flows >>

\* The negotiator's indices are locally unique.
OnUpdatePeer == ProcessUpdatePeer(FreshIndices)

\* The negotiator may hand out an index value it has handed out before:
\* the closure takes whatever our_next_index() returns.
OnUpdatePeerAnyIndex == ProcessUpdatePeer(Indices)

\* Any other kind: unimplemented!()
OnOtherKind ==
    /\ TakeEvent("Other")
    /\ IF BorrowMutFails THEN AlreadyBorrowed
       ELSE /\ ConsumerPanics
            /\ UNCHANGED << routing, peers, submitted, state_borrow >>
    /\ UNCHANGED << hash_order, sets, resolved, wire, gets, flows >>

\* ------------------------------------------------ the spawned send tasks

\* Mutant: the error of a failed send is propagated instead of discarded.
SendTaskOutcome_ErrorFatal(delivered) ==
    IF delivered THEN "running" ELSE "panicked"

\* .then(|_| Ok(())): whatever the send resolved to, the task ends with Ok.
SendTaskOutcome(delivered) == "running"

\* A spawned tx.send(..).then(|_| Ok(())) resolves: the datagram reaches the
\* transport, or the send fails and the error is discarded.
SendResolves ==
    /\ ReactorIdle
    /\ resolved < Len(submitted)
    /\ resolved' = resolved + 1
    /\ \E delivered \in BOOLEAN :
        /\ wire' = IF delivered THEN Append(wire, submitted[resolved + 1]) ELSE wire
        /\ start' = SendTaskOutcome(delivered)
    /\ UNCHANGED << routing, peers, hash_order, queue, draining, sets, consumed,
                    submitted, gets, flows, state_borrow >>

\* --------------------------------------------------- the joined flows

\* Flows whose stream can end: the device's read half (utun_reader) and the
\* listener's incoming().  utun_rx and config_rx do not end while start holds
\* utun_tx and config_tx, and the transport multiplexer serves its socket
\* for as long as it is polled.
CanEndOk == {"utun_read", "config_server"}
\* config_rx yields no error and the closure always returns ok.
CanEndErr == Flows \ {"config_fut"}

\* Join: an error of one flow resolves the join at once, and run(..).unwrap()
\* panics; a flow that ended without error is kept until all have ended.
JoinOutcome(fl) ==
    IF \E f \in Flows : fl[f] = "err" THEN "panicked"
    ELSE IF \A f \in Flows : fl[f] = "ok" THEN "returned"
    ELSE "running"

FlowTerminates(f, result) ==
    /\ ReactorIdle
    /\ flows[f] = "running"
    /\ \/ result = "ok" /\ f \in CanEndOk
       \/ result = "err" /\ f \in CanEndErr
    /\ flows' = [flows EXCEPT ![f] = result]
    /\ start' = JoinOutcome(flows')
    /\ UNCHANGED << routing, peers, hash_order, queue, draining, sets, consumed,
                    submitted, resolved, wire, gets, state_borrow >>

\* ------------------------------------------------------ routing lookups

\* route(dest_ip): longest-prefix match in the table of the address's family.
Route(family, addr) ==
    LET map == IF family = "v4" THEN ip4_map ELSE ip6_map
        matching == { k \in DOMAIN map : Network(addr, k[2]) = k[1] }
    IN  IF matching = {} THEN None
        ELSE Some(map[CHOOSE k \in matching : \A j \in matching : j[2] <= k[2]])

\* ------------------------------------------------------- specifications

\* The interface while every joined flow keeps running.
Next ==
    \/ HandleSet(MaxEvents)
    \/ HandleGet
    \/ OnPrivateKey
    \/ OnListenPort
    \/ OnUpdatePeer
    \/ OnOtherKind
    \/ SendResolves

Spec == Init /\ [][Next]_vars

\* The same, with the joined flows free to terminate.
NextStart ==
    \/ HandleSet(MaxStartEvents)
    \/ HandleGet
    \/ OnPrivateKey
    \/ OnListenPort
    \/ OnUpdatePeer
    \/ OnOtherKind
    \/ SendResolves
    \/ \E f \in Flows, result \in {"ok", "err"} : FlowTerminates(f, result)

SpecStart == Init /\ [][NextStart]_vars

\* The interface with a session negotiator that may repeat an index value.
NextAnyIndex ==
    \/ HandleSet(MaxEvents)
    \/ HandleGet
    \/ OnPrivateKey
    \/ OnListenPort
    \/ OnUpdatePeerAnyIndex
    \/ OnOtherKind
    \/ SendResolves

SpecAnyIndex == Init /\ [][NextAnyIndex]_vars

\* ================================================================ claims

Answered(i) == sets[i].reply # None

\* The peer object a submitted datagram was built for: the one whose pending
\* session carries the datagram's sender index.
PeerOfDatagram(d) ==
    CHOOSE p \in DOMAIN peers : peers[p].our_next_index = d.payload.sender_index

\* The step in which the consumer's closure is handed an event of `kind`.
Consumes(kind) ==
    /\ Len(consumed') = Len(consumed) + 1
    /\ consumed'[Len(consumed')].kind = kind

\* C1: handshake-before-send.  In every state, every datagram that has been
\* handed to the UDP send path (spawned, and so also every one delivered) has
\* its session index in index_map, and the entry is the peer the datagram
\* was built for.
C1_IndexInstalledBeforeSend ==
    \A i \in DOMAIN submitted :
        LET d == submitted[i] IN
        /\ \E p \in DOMAIN peers : peers[p].our_next_index = d.payload.sender_index
        /\ d.payload.sender_index \in DOMAIN index_map
        /\ index_map[d.payload.sender_index] = PeerOfDatagram(d)
        /\ d.payload = HandshakePacket(peers[PeerOfDatagram(d)])

\* A handshake initiation has been delivered to the transport.
C1_Witness ==
    /\ Len(wire) > 0
    /\ wire[1].payload.sender_index \in DOMAIN index_map

\* The table of an allowed_ips entry's address family.
IpMapOf(ip) == IF ip[1] = "v4" THEN ip4_map ELSE ip6_map

\* An allowed_ips entry of `info` designates a prefix that a registered peer
\* with another public key owns.
PrefixOwnedByOtherPeer(info) ==
    \E n \in DOMAIN info.allowed_ips :
        LET ip == info.allowed_ips[n] IN
        /\ PrefixKey(ip) \in DOMAIN IpMapOf(ip)
        /\ LET owner == IpMapOf(ip)[PrefixKey(ip)] IN
           /\ peers[owner].info.pub_key # info.pub_key
           /\ peers[owner].info.pub_key \in DOMAIN pubkey_map
           /\ pubkey_map[peers[owner].info.pub_key] = owner

\* C2: an UpdatePeer event whose allowed-IP prefix is owned by a different
\* registered peer is rejected: the step that consumes it leaves pubkey_map,
\* index_map, ip4_map and ip6_map as they were.
C2_OverlappingPeerRejected ==
    [][ ( /\ Consumes("UpdatePeer")
          /\ PrefixOwnedByOtherPeer(consumed'[Len(consumed')].info) )
        => UNCHANGED tables ]_vars

\* C3: a public key once registered keeps its peer: no step replaces the
\* entry pubkey_map holds for a key, so the entry is the first peer
\* registered under it.
C3_FirstRegistrationKept ==
    [][ \A k \in DOMAIN pubkey_map :
            k \in DOMAIN pubkey_map' /\ pubkey_map'[k] = pubkey_map[k] ]_vars

\* C4: index uniqueness.  In every state, for every peer registered in
\* pubkey_map, index_map maps the peer's session index to that same peer,
\* whatever index values the peers were assigned, a value assigned to two
\* peers included.  Stated for the states in which no event has failed, so
\* that a violation shows events that were all processed to the end.
C4_RegisteredPeerOwnsItsIndex ==
    start # "panicked" =>
    \A k \in DOMAIN pubkey_map :
        LET p == pubkey_map[k] IN
        /\ peers[p].our_next_index \in DOMAIN index_map
        /\ index_map[peers[p].our_next_index] = p

\* The items each Set command has enqueued so far, in the order the Set
\* commands were handled.
RECURSIVE PushedItems(_)
PushedItems(ss) ==
    IF ss = << >> THEN << >>
    ELSE PushedItems(SubSeq(ss, 1, Len(ss) - 1))
         \o SubSeq(ss[Len(ss)].items, 1, ss[Len(ss)].pushed)

\* C5: no update event is dropped, duplicated or reordered.  The events the
\* consumer has been handed, followed by those still in the channel, are
\* exactly the enqueued items of the Set commands in the order they were
\* enqueued; an answered Set has enqueued every one of its items; and a Set
\* that has not is the last one, whose handler still holds the remaining
\* items.
C5_NoEventDroppedOrReordered ==
    /\ consumed \o queue = PushedItems(sets)
    /\ \A i \in DOMAIN sets :
        /\ Answered(i) => sets[i].pushed = Len(sets[i].items)
        /\ ~Answered(i) => (i = Len(sets) /\ start = "blocked")

\* A private_key item of one Set and a peer item of a later Set have both
\* been applied, the key first.
C5_Witness ==
    /\ Len(sets) = 2
    /\ Len(consumed) = 2
    /\ consumed[1].kind = "PrivateKey"
    /\ consumed[2].kind = "UpdatePeer"
    /\ sets[1].items = << consumed[1] >>
    /\ DOMAIN pubkey_map # {}

\* The consumer's closure can be handed the next event.
ConfigEvent == OnPrivateKey \/ OnListenPort \/ OnUpdatePeer \/ OnOtherKind

\* C6: backpressure makes progress.  While a Set handler has items left to
\* enqueue, the update-event consumer is able to run and drain the channel.
C6_SuspendedSetLetsConsumerRun ==
    \A i \in DOMAIN sets :
        sets[i].pushed < Len(sets[i].items) => ENABLED ConfigEvent

\* C7: idempotent Get.  Two Get commands answered with no Set command handled
\* between them have the same response.
C7_GetIdempotent ==
    gets[1] # None => gets[1] = gets[2]

Contains(lines, line) == \E n \in DOMAIN lines : lines[n] = line

CompletePeerItem(item) ==
    /\ item.kind = "UpdatePeer"
    /\ item.info.psk # None
    /\ item.info.endpoint # None
    /\ item.info.allowed_ips # << >>

\* C8: a Get reflects the answered Sets.  When a Set carrying a private key
\* and a later Set carrying a complete peer have both been answered, the
\* response of a Get answered after them holds the private key, the peer's
\* public key and ends with errno=0.
C8_GetReflectsAnsweredSets ==
    \A i, j \in DOMAIN sets :
        ( /\ i < j /\ Answered(i) /\ Answered(j)
          /\ gets[2] # None ) =>
        \A a \in DOMAIN sets[i].items, b \in DOMAIN sets[j].items :
            ( /\ sets[i].items[a].kind = "PrivateKey"
              /\ CompletePeerItem(sets[j].items[b]) ) =>
            /\ Contains(gets[2], <<"private_key", HexEncode(sets[i].items[a].private_key)>>)
            /\ Contains(gets[2], <<"public_key", sets[j].items[b].info.pub_key>>)
            /\ gets[2][Len(gets[2])] = <<"errno", "0">>

\* The consumer processed an UpdatePeer event to the end of its closure.
UpdatePeerSucceeds == Consumes("UpdatePeer") /\ start' = "running"

\* C9: a successfully processed UpdatePeer event submits exactly one datagram
\* to the send path, addressed to the new peer's configured endpoint and
\* carrying that peer's handshake initiation; every other step submits none.
C9_OneDatagramPerUpdatePeer ==
    [][ IF UpdatePeerSucceeds
        THEN LET peer == peers'[Len(peers')] IN
             /\ Len(peers') = Len(peers) + 1
             /\ peer.info = consumed'[Len(consumed')].info
             /\ submitted' = Append(submitted,
                    [endpoint |-> peer.info.endpoint[1],
                     payload |-> [type |-> "handshake-initiation",
                                  sender_index |-> peer.our_next_index,
                                  responder |-> peer.info.pub_key]])
        ELSE submitted' = submitted ]_vars

\* Two UpdatePeer events have been processed and two datagrams submitted,
\* to different endpoints.
C9_Witness ==
    /\ Len(submitted) = 2
    /\ Len(peers) = 2
    /\ submitted[1].endpoint # submitted[2].endpoint

\* C10: start ends with the first flow that terminates: in no state has a
\* joined flow terminated, normally or with an error, while start keeps
\* running the others.
C10_StartEndsWithFirstFlow ==
    (\E f \in Flows : flows[f] # "running") => start # "running"

\* The step in which a spawned send resolves with an error.
SendFails == resolved' = resolved + 1 /\ wire' = wire

\* C11: a failed handshake-initiation send terminates nothing.  The step in
\* which a spawned send resolves with an error leaves start running, every
\* joined flow as it was, the routing state (with the peer just registered)
\* and the channel untouched, so the consumer goes on with the later events.
C11_SendFailureIsSwallowed ==
    [][ SendFails =>
          /\ start' = "running"
          /\ flows' = flows
          /\ UNCHANGED << routing, peers, queue, draining >> ]_vars

\* A send has failed, its peer is still registered, and the consumer is able
\* to take the later event that waits in the channel.
C11_Witness ==
    /\ resolved = 1 /\ wire = << >>
    /\ start = "running"
    /\ Len(peers) = 1
    /\ pubkey_map[peers[1].info.pub_key] = 1
    /\ Len(consumed) = 2
    /\ queue # << >>
    /\ ENABLED ConfigEvent

\* C12: no peer before the private key.  An UpdatePeer event consumed while
\* interface_info.private_key is absent panics, and the step inserts no peer
\* into pubkey_map, index_map, ip4_map or ip6_map and submits no datagram.
C12_NoPeerWithoutPrivateKey ==
    [][ ( /\ Consumes("UpdatePeer")
          /\ interface_info.private_key = None ) =>
        ( /\ start' = "panicked"
          /\ UNCHANGED << tables, peers, submitted >> ) ]_vars

\* An UpdatePeer event with pre-shared key and endpoint was consumed first
\* and start has panicked with empty tables.
C12_Witness ==
    /\ start = "panicked"
    /\ Len(consumed) = 1
    /\ consumed[1].kind = "UpdatePeer"
    /\ consumed[1].info.psk # None
    /\ consumed[1].info.endpoint # None
    /\ pubkey_map = EmptyMap /\ index_map = EmptyMap
    /\ ip4_map = EmptyMap /\ ip6_map = EmptyMap
    /\ submitted = << >>

\* The step in which a connection task handles a Set or a Get command.
HandlesSet == Len(sets') = Len(sets) + 1
HandlesGet == gets' # gets /\ gets'[2] # None

\* C13: single writer.  Every step that changes interface_info or one of the
\* four lookup tables is a step of the update-event consumer (it is handed an
\* event); the step that handles a Set only enqueues, and the steps that
\* handle a Set or a Get leave the routing state as it was.
C13_SingleWriter ==
    [][ /\ routing' # routing => Len(consumed') = Len(consumed) + 1
        /\ HandlesSet => (routing' = routing /\ consumed' = consumed)
        /\ HandlesGet => routing' = routing ]_vars

\* The consumer has written the private key and a peer, after which a Get
\* was answered from the state it wrote.
C13_Witness ==
    /\ Len(sets) >= 1
    /\ interface_info.private_key # None
    /\ pubkey_map # EmptyMap
    /\ gets[2] # None
    /\ Contains(gets[2], <<"private_key", HexEncode(interface_info.private_key[1])>>)
    /\ Contains(gets[2], <<"public_key", "pkA">>)

\* The allowed_ips entries the processed UpdatePeer events registered, each
\* with the peer object that registered it.
Registrations ==
    UNION { { << p, n >> : n \in DOMAIN peers[p].info.allowed_ips } :
            p \in DOMAIN peers }
EntryOf(r) == peers[r[1]].info.allowed_ips[r[2]]

\* The prefix of an allowed_ips entry contains the address: they agree on
\* the entry's first mask-length bits.
Covers(ip, family, addr) ==
    /\ ip[1] = family
    /\ addr \div Pow2(AddrBits - ip[3]) = ip[2] \div Pow2(AddrBits - ip[3])

\* No prefix was registered by two peers.
NonOverlapping ==
    \A r, q \in Registrations :
        ( /\ r[1] # q[1]
          /\ EntryOf(r)[3] = EntryOf(q)[3] )
        => ~Covers(EntryOf(r), EntryOf(q)[1], EntryOf(q)[2])

Addresses == 0 .. (Pow2(AddrBits) - 1)

\* C14: routing correctness.  When no prefix was registered by two peers,
\* the lookup of any address in the table of its family yields the peer
\* that registered the longest prefix containing the address, and no peer
\* when no registered prefix of that family contains it (so a prefix of the
\* other family never answers).
C14_RouteIsLongestRegisteredPrefix ==
    NonOverlapping =>
    \A family \in {"v4", "v6"}, addr \in Addresses :
        LET cands == { r \in Registrations : Covers(EntryOf(r), family, addr) }
        IN  IF cands = {} THEN Route(family, addr) = None
            ELSE \E c \in cands :
                    /\ \A d \in cands : EntryOf(d)[3] <= EntryOf(c)[3]
                    /\ Route(family, addr) = Some(c[1])

\* Two peers hold nested IPv4 prefixes: the address inside the longer one
\* is routed to its peer, the rest of the shorter one to the other peer, and
\* an address outside both, or any IPv6 address, to no peer.
C14_Witness ==
    /\ start = "running"
    /\ NonOverlapping
    /\ DOMAIN pubkey_map = PubKeys
    /\ Route("v4", 3) = Some(pubkey_map["pkB"])
    /\ Route("v4", 2) = Some(pubkey_map["pkA"])
    /\ Route("v4", 0) = None
    /\ Route("v6", 3) = None

\* C15: one peer, three lookup paths.  The step that processes an UpdatePeer
\* event to the end creates one peer object holding the event's description
\* and a pending (handshake-initiated) session, and afterwards pubkey_map
\* under the event's public key, index_map under the pending session's
\* index, and the table of its family under every allowed_ips entry of the
\* event all yield that object.
C15_PeerReachableOnAllPaths ==
    [][ UpdatePeerSucceeds =>
        LET info == consumed'[Len(consumed')].info
            p == Len(peers')
        IN  /\ Len(peers') = Len(peers) + 1
            /\ peers'[p].info = info
            /\ peers'[p].session = "handshake-initiated"
            /\ info.pub_key \in DOMAIN pubkey_map'
            /\ pubkey_map'[info.pub_key] = p
            /\ peers'[p].our_next_index \in DOMAIN index_map'
            /\ index_map'[peers'[p].our_next_index] = p
            /\ \A n \in DOMAIN info.allowed_ips :
                 LET ip == info.allowed_ips[n]
                     map == IF ip[1] = "v4" THEN ip4_map' ELSE ip6_map'
                 IN  /\ PrefixKey(ip) \in DOMAIN map
                     /\ map[PrefixKey(ip)] = p ]_vars

\* An UpdatePeer event with an IPv4 and an IPv6 entry was processed to the
\* end for a public key that already had a peer: the new peer is the one in
\* all tables.
C15_Witness ==
    /\ start = "running"
    /\ Len(peers) = 2
    /\ Len(submitted) = 2
    /\ peers[1].info.pub_key = "pkB"
    /\ peers[2].info.allowed_ips = << <<"v4", 3, 1>>, <<"v6", 1, 2>> >>
    /\ pubkey_map["pkB"] = 2
    /\ index_map[peers[2].our_next_index] = 2
    /\ ip4_map[<<2, 1>>] = 2
    /\ ip6_map[<<1, 2>>] = 2

\* C16 as stated: an update event of any other kind is a silent no-op.  The
\* step that consumes it leaves the routing state unchanged, submits no
\* datagram, and leaves the consumer running for the next event.
C16_OtherKindIsNoOp ==
    [][ Consumes("Other") =>
          /\ UNCHANGED << routing, submitted >>
          /\ start' = "running" ]_vars

\* C16, amended: an update event of any other kind is fatal.  The step that
\* consumes it panics, leaving the routing state and the peers unchanged and
\* submitting no datagram, and after it the consumer is handed no further
\* event.
C16_OtherKindIsFatal ==
    [][ /\ Consumes("Other") =>
              /\ start' = "panicked"
              /\ UNCHANGED << routing, peers, submitted >>
        /\ ( /\ consumed # << >>
              /\ consumed[Len(consumed)].kind = "Other" ) =>
              /\ consumed' = consumed
              /\ start' = "panicked" ]_vars

\* An event of another kind was consumed after a private key, with a
\* ListenPort event still waiting in the channel that is never consumed.
C16_Witness ==
    /\ start = "panicked"
    /\ Len(consumed) = 2
    /\ consumed[1].kind = "PrivateKey"
    /\ consumed[2].kind = "Other"
    /\ interface_info.private_key # None
    /\ queue # << >>
    /\ queue[1].kind = "ListenPort"
    /\ ~ ENABLED ConfigEvent

\* C17: no borrow conflict.  In no state has a borrow_mut of the consumer
\* met an outstanding borrow, and whenever a handler's borrow is outstanding
\* (a Set handler waiting for room in the channel) the consumer cannot be
\* handed an event, so its mutable borrow never exists beside it.
C17_NoBorrowConflict ==
    /\ state_borrow # "error"
    /\ state_borrow = "shared" => (start = "blocked" /\ ~ ENABLED ConfigEvent)

\* A Set handler waits for room in the channel with its borrow outstanding,
\* behind the events of an answered Set that the consumer has yet to take.
C17_Witness ==
    /\ state_borrow = "shared"
    /\ start = "blocked"
    /\ Len(sets) = 2
    /\ Answered(1)
    /\ sets[2].pushed < Len(sets[2].items)
    /\ Len(queue) = 2
    /\ consumed = << >>

\* C18: index_map refers only to registered peers.  In every state, every
\* peer index_map holds is the peer pubkey_map holds under that peer's own
\* public key.
C18_IndexMapOnlyRegisteredPeers ==
    \A i \in DOMAIN index_map :
        LET p == index_map[i] IN
        /\ peers[p].info.pub_key \in DOMAIN pubkey_map
        /\ pubkey_map[peers[p].info.pub_key] = p

\* C19: UpdatePeer is all-or-nothing.  Every step in which the processing
\* of an UpdatePeer event fails (the closure panics) leaves pubkey_map,
\* index_map, ip4_map and ip6_map as they were before the event.
C19_FailedUpdatePeerLeavesTables ==
    [][ ( /\ Consumes("UpdatePeer")
          /\ start' = "panicked" )
        => UNCHANGED tables ]_vars

\* How many events the Set commands before the i-th have enqueued.
RECURSIVE SetOffset(_)
SetOffset(i) == IF i = 1 THEN 0 ELSE SetOffset(i - 1) + sets[i - 1].pushed

\* C20: the items of one Set are enqueued contiguously.  In the stream of
\* events the consumer is handed (those consumed, then those in the
\* channel), the enqueued items of each Set stand next to each other in
\* their order, and a Set enqueues only after every earlier Set has
\* enqueued all of its items, so no item of one Set stands between two
\* items of another.
C20_SetItemsContiguous ==
    LET stream == consumed \o queue IN
    \A i \in DOMAIN sets :
        /\ \A j \in 1 .. (i - 1) : sets[j].pushed = Len(sets[j].items)
        /\ SetOffset(i) + sets[i].pushed <= Len(stream)
        /\ \A n \in 1 .. sets[i].pushed :
              stream[SetOffset(i) + n] = sets[i].items[n]

\* Two connections' Sets were both enqueued before the consumer began to
\* drain: the consumer has applied the first Set's private key and peer and
\* the other Set's peer item is next.
C20_Witness ==
    /\ Len(sets) = 2
    /\ draining
    /\ Len(sets[1].items) = 2
    /\ consumed = sets[1].items
    /\ queue = sets[2].items
    /\ consumed[1].kind = "PrivateKey"
    /\ consumed[2].kind = "UpdatePeer"
    /\ queue[1].kind = "UpdatePeer"
    /\ queue[1].info.pub_key # consumed[2].info.pub_key

====
